---- MODULE Spec2Model ----
(***************************************************************************)
(* A model of word_count_from_json.py: the pipeline of main() that reads   *)
(* texts.json, cleans and segments every text, counts the words, loads the *)
(* CEDICT dictionary, enriches every distinct word with a translation and  *)
(* a pinyin (dictionary, remote translator in batches, per-character       *)
(* gloss) and writes enhanced_word_counts.json.                            *)
(*                                                                         *)
(* A Python str is a sequence of Unicode code points (naturals).  A dict   *)
(* or Counter whose iteration order the code relies on is a sequence of    *)
(* records in insertion order; a dict that is only looked up is a function.*)
(* The libraries the script calls (jieba, pypinyin, cedict_utils,          *)
(* googletrans) and the file system are the environment: their results are *)
(* chosen with \E from the outcomes they can produce.                      *)
(***************************************************************************)
EXTENDS Naturals, Sequences, FiniteSets

VARIABLES
    pc,              \* position of main(): see the actions below
    texts_file,      \* content of texts.json (a sequence of strings)
    dict_file,       \* entries CedictParser parses from cedict_ts.u8
    output_before,   \* enhanced_word_counts.json as it was before the run
    output_file,     \* enhanced_word_counts.json now
    texts,           \* main: texts
    all_words,       \* segment_text: all_words (the filtered token stream)
    word_counts,     \* main: word_counts, a Counter in insertion order
    dictionary,      \* main: dictionary, headword -> entry
    missing_words,   \* add_translations_and_pinyin: missing_words
    i,               \* fetch_missing_translations: loop variable i (0-based)
    translations,    \* fetch_missing_translations: translations
    calls,           \* the texts handed to translator.translate, in order
    outcomes,        \* how each translate call ended, in order: raised or not,
                     \* and the text returned
    derived,         \* words derive_translation_from_components was called on
    enhanced_data,   \* main: enhanced_data
    clean_in,        \* argument of a stand-alone clean_text call
    clean_out        \* its result

vars == <<pc, texts_file, dict_file, output_before, output_file, texts,
          all_words, word_counts, dictionary, missing_words, i, translations,
          calls, outcomes, derived, enhanced_data, clean_in, clean_out>>

(***************************************************************************)
(* Bounds of the checked instances.                                        *)
(***************************************************************************)
\* texts.json holds at most MaxTexts strings of at most MaxChars characters
\* together (the exhaustively enumerated corpora).
MaxTexts == 2
MaxChars == 3
\* a stand-alone clean_text argument has at most MaxCleanLen characters.
MaxCleanLen == 3

Min(a, b) == IF a <= b THEN a ELSE b

(***************************************************************************)
(* Character classes of the three regular expressions.                     *)
(***************************************************************************)
\* (a variant: the range taken up to U+FAFF)
IsHanUpToFAFF(c) == c \in 19968..64255

\* [\u4e00-\u9fff]: lines 34 and 111, and line 18, where the two ends of
\* the range are written as the literal characters U+4E00 and U+9FFF.
IsHan(c) == c \in 19968..40959

\* A-Za-z of line 18.
IsAsciiLetter(c) == c \in 65..90 \/ c \in 97..122

\* 0-9 of line 18.
IsAsciiDigit(c) == c \in 48..57

\* \s of a str pattern, and the characters str.strip() removes: the code
\* points for which str.isspace() holds.
IsSpace(c) ==
    c \in (9..13) \cup (28..32) \cup {133, 160, 5760} \cup (8192..8202)
          \cup {8232, 8233, 8239, 8287, 12288}

\* line 18: re.sub(r'[^\u4e00-\u9fffA-Za-z0-9\s]', '', text) deletes every
\* character outside the class and keeps the others where they are.
KeptByClean(c) == IsHan(c) \/ IsAsciiLetter(c) \/ IsAsciiDigit(c) \/ IsSpace(c)

clean_text(text) == SelectSeq(text, KeptByClean)

(***************************************************************************)
(* str and list operations of Python.                                      *)
(***************************************************************************)
\* sep.join(parts[lo..hi]); "" for an empty range.
RECURSIVE JoinRange(_, _, _, _)
JoinRange(parts, sep, lo, hi) ==
    IF lo > hi THEN <<>>
    ELSE IF lo = hi THEN parts[lo]
    ELSE LET mid == (lo + hi) \div 2
         IN JoinRange(parts, sep, lo, mid) \o sep \o JoinRange(parts, sep, mid + 1, hi)

\* sep.join(parts)
Join(parts, sep) == JoinRange(parts, sep, 1, Len(parts))

\* text[lo..hi].split("\n"): the pieces between the newlines, empty pieces
\* kept, so that "".split("\n") is [""] and "a\n".split("\n") is ["a", ""].
RECURSIVE SplitRange(_, _, _)
SplitRange(text, lo, hi) ==
    IF lo > hi THEN << <<>> >>
    ELSE IF lo = hi THEN (IF text[lo] = 10 THEN << <<>>, <<>> >> ELSE << <<text[lo]>> >>)
    ELSE LET mid == (lo + hi) \div 2
             l == SplitRange(text, lo, mid)
             r == SplitRange(text, mid + 1, hi)
         IN SubSeq(l, 1, Len(l) - 1) \o << l[Len(l)] \o r[1] >> \o SubSeq(r, 2, Len(r))

\* text.split("\n")
SplitLines(text) == SplitRange(text, 1, Len(text))

\* the lists lists[lo..hi] appended to one another (list.extend in a loop).
RECURSIVE ExtendRange(_, _, _)
ExtendRange(lists, lo, hi) ==
    IF lo > hi THEN <<>>
    ELSE IF lo = hi THEN lists[lo]
    ELSE LET mid == (lo + hi) \div 2
         IN ExtendRange(lists, lo, mid) \o ExtendRange(lists, mid + 1, hi)

\* word.strip(): the word without its leading and trailing whitespace.
strip(word) ==
    LET solid == {k \in 1..Len(word) : ~IsSpace(word[k])}
    IN IF solid = {} THEN <<>>
       ELSE SubSeq(word, CHOOSE k \in solid : \A j \in solid : k <= j,
                         CHOOSE k \in solid : \A j \in solid : j <= k)

(***************************************************************************)
(* segment_text                                                            *)
(***************************************************************************)
\* jieba.lcut(clean): the tokens of a segmentation of the string, in order;
\* their concatenation is the string.  Which segmentation jieba chooses is
\* the library's business: cuts is the set of positions after which it cuts.
lcut(clean, cuts) ==
    LET starts == IF Len(clean) = 0 THEN {} ELSE {1} \cup {p + 1 : p \in cuts}
        start(k) == CHOOSE s \in starts : Cardinality({x \in starts : x < s}) = k - 1
        n == Cardinality(starts)
    IN [k \in 1..n |-> SubSeq(clean, start(k),
                               IF k = n THEN Len(clean) ELSE start(k + 1) - 1)]

\* the positions where a string can be cut
CutPoints(clean) == 1..(Len(clean) - 1)

\* line 34: word.strip() and re.match(r'[\u4e00-\u9fff]', word)
KeepWord(word) == strip(word) # <<>> /\ Len(word) > 0 /\ IsHan(word[1])

\* (a variant: one item for every occurrence, nothing merged)
CounterPerOccurrence(words) ==
    [k \in 1..Len(words) |->
        [word |-> words[k],
         count |-> Cardinality({j \in 1..Len(words) : words[j] = words[k]})]]

\* line 39: Counter(all_words).  The keys in the order of their first
\* occurrence, each with the number of its occurrences.
Counter(words) ==
    LET idx == [k \in 1..Len(words) |-> k]
        first == SelectSeq(idx, LAMBDA k : \A j \in 1..(k - 1) : words[j] # words[k])
    IN [k \in 1..Len(first) |->
          [word |-> words[first[k]],
           count |-> Cardinality({j \in 1..Len(words) : words[j] = words[first[k]]})]]

\* lines 30-34 for the texts, <<t, p>> \in cuts being a cut of jieba after
\* position p of cleaned text t: all_words after the loop.
SegmentedWords(txts, cuts) ==
    LET kept == [t \in 1..Len(txts) |->
                    SelectSeq(lcut(clean_text(txts[t]),
                                   {p \in 1..Len(txts[t]) : <<t, p>> \in cuts}),
                              KeepWord)]
    IN ExtendRange(kept, 1, Len(txts))

\* the keys of a Counter
Keys(wc) == {wc[k].word : k \in 1..Len(wc)}

\* (a variant: the number of items, len in place of sum)
CountItems(wc, lo, hi) == IF lo > hi THEN 0 ELSE hi - lo + 1

\* sum(word_counts.values())
RECURSIVE SumCounts(_, _, _)
SumCounts(wc, lo, hi) ==
    IF lo > hi THEN 0
    ELSE IF lo = hi THEN wc[lo].count
    ELSE LET mid == (lo + hi) \div 2
         IN SumCounts(wc, lo, mid) + SumCounts(wc, mid + 1, hi)

(***************************************************************************)
(* load_cedict_dictionary                                                  *)
(***************************************************************************)
\* (a variant: the first entry of a headword is kept)
BuildDictionaryFirstWins(entries) ==
    [h \in {entries[k].simplified : k \in 1..Len(entries)} |->
        entries[CHOOSE k \in 1..Len(entries) :
                    /\ entries[k].simplified = h
                    /\ \A j \in 1..(k - 1) : entries[j].simplified # h]]

\* line 50: {entry.simplified: entry for entry in entries}: a later entry
\* of a headword replaces an earlier one.
BuildDictionary(entries) ==
    [h \in {entries[k].simplified : k \in 1..Len(entries)} |->
        entries[CHOOSE k \in 1..Len(entries) :
                    /\ entries[k].simplified = h
                    /\ \A j \in (k + 1)..Len(entries) : entries[j].simplified # h]]

(***************************************************************************)
(* derive_translation_from_components                                      *)
(***************************************************************************)
\* lines 60-64 for one character.  A CedictEntry is a plain object, always
\* true in "if char_entry"; dictionary.get gives None for a missing key.
CharacterTranslation(char, dict) ==
    IF <<char>> \in DOMAIN dict
    THEN Join(dict[<<char>>].meanings, <<44, 32>>)
    ELSE <<63>>

\* (a variant: the parts joined by "+" without the spaces)
DeriveJoinedByPlus(word, dict) ==
    Join([k \in 1..Len(word) |-> CharacterTranslation(word[k], dict)], <<43>>)

\* lines 58-65: " + ".join of the per-character translations.
derive_translation_from_components(word, dict) ==
    Join([k \in 1..Len(word) |-> CharacterTranslation(word[k], dict)], <<32, 43, 32>>)

(***************************************************************************)
(* fetch_missing_translations                                              *)
(***************************************************************************)
\* line 75
batch_size == 100

\* (a variant: the slice taken one word too far)
BatchOneLonger(missing, at) ==
    SubSeq(missing, at + 1, Min(at + batch_size + 1, Len(missing)))

\* line 77: missing_words[i:i + batch_size], i counted from 0; a slice
\* stops at the end of the list.
Batch(missing, at) == SubSeq(missing, at + 1, Min(at + batch_size, Len(missing)))

\* line 80: "\n".join(batch), the text handed to translator.translate.
BatchText(batch) == Join(batch, <<10>>)

\* (a variant: a reply of another length than the batch is dropped)
ZipStrict(trans, batch, results) ==
    IF Len(batch) # Len(results) THEN trans
    ELSE [w \in (DOMAIN trans) \cup {batch[k] : k \in 1..Len(batch)} |->
            IF \E k \in 1..Len(batch) : batch[k] = w
            THEN results[CHOOSE k \in 1..Len(batch) : batch[k] = w]
            ELSE trans[w]]

\* lines 82-83: for word, translated in zip(batch, batch_results):
\* translations[word] = translated.  zip stops at the shorter of the two;
\* a later pair of the same word replaces an earlier one.
ZipInto(trans, batch, results) ==
    LET n == Min(Len(batch), Len(results))
    IN [w \in (DOMAIN trans) \cup {batch[k] : k \in 1..n} |->
          IF \E k \in 1..n : batch[k] = w
          THEN results[CHOOSE k \in 1..n :
                          batch[k] = w /\ \A j \in (k + 1)..n : batch[j] # w]
          ELSE trans[w]]

(***************************************************************************)
(* add_translations_and_pinyin                                             *)
(***************************************************************************)
\* lines 98-100: the keys of word_counts that are not in the dictionary, in
\* the order of the table.
MissingWords(wc, dict) ==
    LET wordsOf == [k \in 1..Len(wc) |-> wc[k].word]
    IN SelectSeq(wordsOf, LAMBDA w : w \notin DOMAIN dict)

\* pypinyin: pinyin(char, style=Style.TONE3)[0][0], the romanization of one
\* character with its tone as a trailing digit.  The library's table is not
\* part of the program: a syllable is modelled as a letter and a tone digit
\* that depend on the character.
pinyin(char) == <<97 + (char % 26), 49 + (char % 5)>>

\* line 111: " ".join of the pinyin of the characters of the word that
\* match [\u4e00-\u9fff].
SynthesizedPinyin(word) ==
    LET han == SelectSeq(word, IsHan)
    IN Join([k \in 1..Len(han) |-> pinyin(han[k])], <<32>>)

\* lines 105-118 for one item of word_counts.  A CedictEntry is a plain
\* object, always true in "if entry".
EnhancedEntry(item, dict, missing_translations) ==
    IF item.word \in DOMAIN dict
    THEN [Word |-> item.word, Count |-> item.count,
          Translation |-> Join(dict[item.word].meanings, <<44, 32>>),
          Pinyin |-> dict[item.word].pinyin]
    ELSE [Word |-> item.word, Count |-> item.count,
          Translation |->
              IF item.word \in DOMAIN missing_translations
              THEN missing_translations[item.word]
              ELSE derive_translation_from_components(item.word, dict),
          Pinyin |-> SynthesizedPinyin(item.word)]

\* line 110: the default of missing_translations.get is an argument, so
\* derive_translation_from_components is called for every word that takes
\* the else branch, and only for those.
DerivedWords(wc, dict) == {w \in Keys(wc) : w \notin DOMAIN dict}

\* the entries of data whose Count is one of counts, those of the largest
\* Count first, entries of the same Count in the order they have in data.
RECURSIVE ByCountDesc(_, _)
ByCountDesc(data, counts) ==
    IF counts = {} THEN <<>>
    ELSE LET top == CHOOSE c \in counts : \A d \in counts : d <= c
         IN SelectSeq(data, LAMBDA e : e.Count = top)
                \o ByCountDesc(data, counts \ {top})

\* (a variant: sorted ascending and then reversed, which reverses the
\* entries of equal Count)
SortedThenReversed(data) ==
    ByCountDesc([k \in 1..Len(data) |-> data[Len(data) + 1 - k]],
                {data[k].Count : k \in 1..Len(data)})

\* line 121: sorted(enhanced_data, key=lambda x: x["Count"], reverse=True).
\* sorted is stable, and with reverse=True still keeps entries of equal key
\* in their original order.
SortedByCountDesc(data) ==
    ByCountDesc(data, {data[k].Count : k \in 1..Len(data)})

\* lines 104-121
EnhancedData(wc, dict, missing_translations) ==
    SortedByCountDesc([k \in 1..Len(wc) |-> EnhancedEntry(wc[k], dict, missing_translations)])

(***************************************************************************)
(* save_enhanced_data                                                      *)
(***************************************************************************)
\* lines 127-136: the document json.dump writes.
OutputDocument(data, wc) ==
    [metadata |-> [total_words |-> SumCounts(wc, 1, Len(wc)),
                   unique_words |-> Len(wc)],
     data |-> data]

(***************************************************************************)
(* The environment: the two input files, jieba's cuts, the translator.     *)
(***************************************************************************)
\* the strings of at most n characters of an alphabet
Strings(alphabet, n) == UNION {[1..k -> alphabet] : k \in 0..n}

\* U+4F60 and U+597D (two ideographs), "A", " " and "!"
CorpusAlphabet == {20320, 22909, 65, 32, 33}

\* a corpus of n + 1 one-character texts: n different ideographs from U+4E01
\* on, then the last one again.
LongCorpus(n) == [k \in 1..(n + 1) |-> <<19968 + Min(k, n)>>]

\* the numbers of distinct words that fill one batch exactly, need a second
\* batch for one word, and need a third.
LongSizes == {batch_size, batch_size + 1, 2 * batch_size + 1}

\* the string s as k texts, ends[t] being where text t ends in s
Pieces(s, k, ends) ==
    [t \in 1..k |-> SubSeq(s, (IF t = 1 THEN 0 ELSE ends[t - 1]) + 1,
                              IF t = k THEN Len(s) ELSE ends[t])]

\* the lists of at most MaxTexts texts of at most MaxChars characters together
ShortCorpora ==
    {<<>>} \cup
    UNION { UNION { { Pieces(s, k, ends) :
                        ends \in {e \in [1..(k - 1) -> 0..Len(s)] :
                                     \A t \in 1..(k - 2) : e[t] <= e[t + 1]} }
                    : k \in 1..MaxTexts }
            : s \in Strings(CorpusAlphabet, MaxChars) }

\* the contents of texts.json that are checked
Corpora == ShortCorpora \cup {LongCorpus(n) : n \in LongSizes}

\* the parsed contents of cedict_ts.u8 that are checked: no entry; two
\* one-character headwords; a headword listed twice, a two-character
\* headword and U+4E01.
DictionaryFiles ==
    { <<>>,
      << [simplified |-> <<20320>>, meanings |-> << <<121, 111, 117>> >>, pinyin |-> <<110, 105, 51>>],
         [simplified |-> <<22909>>, meanings |-> << <<103, 111, 111, 100>>, <<119, 101, 108, 108>> >>, pinyin |-> <<104, 97, 111, 51>>] >>,
      << [simplified |-> <<20320>>, meanings |-> << <<121, 111, 117>> >>, pinyin |-> <<110, 105, 51>>],
         [simplified |-> <<20320, 22909>>, meanings |-> << <<104, 101, 108, 108, 111>>, <<104, 105>> >>, pinyin |-> <<110, 105, 51, 32, 104, 97, 111, 51>>],
         [simplified |-> <<20320>>, meanings |-> << <<116, 104, 111, 117>>, <<121, 111, 117>> >>, pinyin |-> <<110, 105, 50>>],
         [simplified |-> <<19969>>, meanings |-> << <<102, 111, 117, 114, 116, 104>> >>, pinyin |-> <<100, 105, 110, 103, 49>>] >> }

\* enhanced_word_counts.json before the run: the file an earlier run left,
\* so that any write of this run changes it.  A file is a sequence of at
\* most one document.
OutputsBefore ==
    { << [metadata |-> [total_words |-> 1, unique_words |-> 1],
          data |-> << [Word |-> <<20320>>, Count |-> 1,
                       Translation |-> <<121, 111, 117>>, Pinyin |-> <<110, 105, 51>>] >>] >> }

\* jieba cuts before and after every whitespace character (it yields each
\* one as a token of its own), except inside "\r\n", which it yields whole.
ForcedCut(clean, p) ==
    (IsSpace(clean[p]) \/ IsSpace(clean[p + 1]))
        /\ ~(clean[p] = 13 /\ clean[p + 1] = 10)

\* the cuts jieba can make in the cleaned texts: pairs <<t, p>>, a cut
\* after position p of text t.
CutChoices(cleaned) ==
    LET points == {tp \in (1..Len(cleaned)) \X (1..MaxChars) :
                      tp[2] \in CutPoints(cleaned[tp[1]])}
    IN {c \in SUBSET points :
          /\ \A tp \in points : ForcedCut(cleaned[tp[1]], tp[2]) => tp \in c
          /\ \A tp \in c : ~(cleaned[tp[1]][tp[2]] = 13 /\ cleaned[tp[1]][tp[2] + 1] = 10)}

\* what the remote service could answer for a word
RemoteTranslation(word) == <<84, 58>> \o word

\* the texts translator.translate can return for a batch: a line for each
\* word; the same followed by a newline (one line too many); the line of
\* the last word missing; the line of the first word missing.  For a batch
\* of one word the last two are the empty text.
ReplyTexts(batch) ==
    LET lines == [k \in 1..Len(batch) |-> RemoteTranslation(batch[k])]
    IN { Join(lines, <<10>>),
         Join(lines, <<10>>) \o <<10>>,
         Join(SubSeq(lines, 1, Len(lines) - 1), <<10>>),
         Join(SubSeq(lines, 2, Len(lines)), <<10>>) }

(***************************************************************************)
(* main: the run of the script, one action for each stretch of code        *)
(* between two points where the environment answers.                       *)
(***************************************************************************)
NotStarted ==
    /\ texts = <<>> /\ all_words = <<>> /\ word_counts = <<>>
    /\ dictionary = <<>> /\ missing_words = <<>> /\ i = 0
    /\ translations = <<>> /\ calls = <<>> /\ outcomes = <<>>
    /\ derived = {} /\ enhanced_data = <<>>

Init ==
    /\ pc = "load_input"
    /\ texts_file \in Corpora
    /\ dict_file \in DictionaryFiles
    /\ output_before \in OutputsBefore
    /\ output_file = output_before
    /\ NotStarted
    /\ clean_in = <<>> /\ clean_out = <<>>

\* lines 155-158: open and json.load succeed.
LoadInput ==
    /\ pc = "load_input"
    /\ texts' = texts_file
    /\ pc' = "segment"
    /\ UNCHANGED <<texts_file, dict_file, output_before, output_file, all_words,
                   word_counts, dictionary, missing_words, i, translations, calls,
                   outcomes, derived, enhanced_data, clean_in, clean_out>>

\* lines 157-158: open or json.load raises; nothing in main catches it.
LoadInputFails ==
    /\ pc = "load_input"
    /\ pc' = "input_error"
    /\ UNCHANGED <<texts_file, dict_file, output_before, output_file, texts,
                   all_words, word_counts, dictionary, missing_words, i,
                   translations, calls, outcomes, derived, enhanced_data,
                   clean_in, clean_out>>

\* lines 161-164: segment_text(texts), then print_statistics, which only logs.
SegmentText ==
    /\ pc = "segment"
    /\ \E cuts \in CutChoices([t \in 1..Len(texts) |-> clean_text(texts[t])]) :
          /\ all_words' = SegmentedWords(texts, cuts)
          /\ word_counts' = Counter(SegmentedWords(texts, cuts))
    /\ pc' = "load_dictionary"
    /\ UNCHANGED <<texts_file, dict_file, output_before, output_file, texts,
                   dictionary, missing_words, i, translations, calls, outcomes,
                   derived, enhanced_data, clean_in, clean_out>>

\* line 167: load_cedict_dictionary() returns.
LoadDictionary ==
    /\ pc = "load_dictionary"
    /\ dictionary' = BuildDictionary(dict_file)
    /\ pc' = "collect_missing"
    /\ UNCHANGED <<texts_file, dict_file, output_before, output_file, texts,
                   all_words, word_counts, missing_words, i, translations, calls,
                   outcomes, derived, enhanced_data, clean_in, clean_out>>

\* lines 48-49: read_file or parse raises; nothing catches it.
LoadDictionaryFails ==
    /\ pc = "load_dictionary"
    /\ pc' = "dictionary_error"
    /\ UNCHANGED <<texts_file, dict_file, output_before, output_file, texts,
                   all_words, word_counts, dictionary, missing_words, i,
                   translations, calls, outcomes, derived, enhanced_data,
                   clean_in, clean_out>>

\* lines 93-102 and 73-76: missing_words is collected; with none, line 102
\* takes {} and no translator is used; otherwise fetch_missing_translations
\* starts its loop at i = 0.
CollectMissing ==
    /\ pc = "collect_missing"
    /\ missing_words' = MissingWords(word_counts, dictionary)
    /\ translations' = <<>>
    /\ i' = 0
    /\ pc' = IF MissingWords(word_counts, dictionary) = <<>> THEN "enhance" ELSE "translate"
    /\ UNCHANGED <<texts_file, dict_file, output_before, output_file, texts,
                   all_words, word_counts, dictionary, calls, outcomes, derived,
                   enhanced_data, clean_in, clean_out>>

\* lines 77-80: the batch at i is joined and handed to translator.translate;
\* the coroutine waits for it.
TranslateCall ==
    /\ pc = "translate"
    /\ calls' = Append(calls, BatchText(Batch(missing_words, i)))
    /\ pc' = "await"
    /\ UNCHANGED <<texts_file, dict_file, output_before, output_file, texts,
                   all_words, word_counts, dictionary, missing_words, i,
                   translations, outcomes, derived, enhanced_data, clean_in,
                   clean_out>>

\* line 76: the next i of range(0, len(missing_words), batch_size), or the
\* end of the loop and the return of line 86.
AfterBatch(at, missing) == IF at + batch_size < Len(missing) THEN "translate" ELSE "enhance"

\* lines 80-83: translate returns; the text is split and zipped with the batch.
TranslateReturns ==
    /\ pc = "await"
    /\ \E reply \in ReplyTexts(Batch(missing_words, i)) :
          /\ translations' = ZipInto(translations, Batch(missing_words, i), SplitLines(reply))
          /\ outcomes' = Append(outcomes, [raised |-> FALSE, text |-> reply])
    /\ i' = i + batch_size
    /\ pc' = AfterBatch(i, missing_words)
    /\ UNCHANGED <<texts_file, dict_file, output_before, output_file, texts,
                   all_words, word_counts, dictionary, missing_words, calls,
                   derived, enhanced_data, clean_in, clean_out>>

\* (a variant: the exception ends the loop)
TranslateRaisesAndStops ==
    /\ pc = "await"
    /\ outcomes' = Append(outcomes, [raised |-> TRUE, text |-> <<>>])
    /\ i' = i + batch_size
    /\ pc' = "enhance"
    /\ UNCHANGED <<texts_file, dict_file, output_before, output_file, texts,
                   all_words, word_counts, dictionary, missing_words,
                   translations, calls, derived, enhanced_data, clean_in,
                   clean_out>>

\* lines 84-85: translate raises an Exception; it is logged and the loop
\* goes on.
TranslateRaises ==
    /\ pc = "await"
    /\ outcomes' = Append(outcomes, [raised |-> TRUE, text |-> <<>>])
    /\ i' = i + batch_size
    /\ pc' = AfterBatch(i, missing_words)
    /\ UNCHANGED <<texts_file, dict_file, output_before, output_file, texts,
                   all_words, word_counts, dictionary, missing_words,
                   translations, calls, derived, enhanced_data, clean_in,
                   clean_out>>

\* lines 104-121: the entries are built and sorted.
Enhance ==
    /\ pc = "enhance"
    /\ enhanced_data' = EnhancedData(word_counts, dictionary, translations)
    /\ derived' = DerivedWords(word_counts, dictionary)
    /\ pc' = "save"
    /\ UNCHANGED <<texts_file, dict_file, output_before, output_file, texts,
                   all_words, word_counts, dictionary, missing_words, i,
                   translations, calls, outcomes, clean_in, clean_out>>

\* (a variant: the document is written in a finally clause, also after the
\* dictionary could not be loaded)
SaveEnhancedDataAlways ==
    /\ pc \in {"save", "dictionary_error"}
    /\ output_file' = << OutputDocument(enhanced_data, word_counts) >>
    /\ pc' = IF pc = "save" THEN "done" ELSE pc
    /\ UNCHANGED <<texts_file, dict_file, output_before, texts, all_words,
                   word_counts, dictionary, missing_words, i, translations,
                   calls, outcomes, derived, enhanced_data, clean_in, clean_out>>

\* lines 173-176: save_enhanced_data writes the document.
SaveEnhancedData ==
    /\ pc = "save"
    /\ output_file' = << OutputDocument(enhanced_data, word_counts) >>
    /\ pc' = "done"
    /\ UNCHANGED <<texts_file, dict_file, output_before, texts, all_words,
                   word_counts, dictionary, missing_words, i, translations,
                   calls, outcomes, derived, enhanced_data, clean_in, clean_out>>

Next ==
    \/ LoadInput
    \/ LoadInputFails
    \/ SegmentText
    \/ LoadDictionary
    \/ LoadDictionaryFails
    \/ CollectMissing
    \/ TranslateCall
    \/ TranslateRaises
    \/ TranslateReturns
    \/ Enhance
    \/ SaveEnhancedData

Spec == Init /\ [][Next]_vars

(***************************************************************************)
(* clean_text on its own, on strings of a wider alphabet.                  *)
(***************************************************************************)
\* U+4DFF, U+4E00, U+9FFF, U+A000 (the ends of the range and their
\* neighbours), U+F900 and U+FAFF (compatibility ideographs), "A", "z",
\* "0", "_", " ", "\n", U+3000 (ideographic space), "!", U+1F600 (an emoji)
\* and U+FF11 (a fullwidth digit).
CleanAlphabet ==
    {19967, 19968, 40959, 40960, 63744, 64255, 65, 122, 48, 95, 32, 10,
     12288, 33, 128512, 65297}

InitClean ==
    /\ pc = "clean"
    /\ clean_in \in Strings(CleanAlphabet, MaxCleanLen)
    /\ clean_out = <<>>
    /\ texts_file = <<>> /\ dict_file = <<>>
    /\ output_before = <<>> /\ output_file = <<>>
    /\ NotStarted

CleanText ==
    /\ pc = "clean"
    /\ clean_out' = clean_text(clean_in)
    /\ pc' = "cleaned"
    /\ UNCHANGED <<texts_file, dict_file, output_before, output_file, texts,
                   all_words, word_counts, dictionary, missing_words, i,
                   translations, calls, outcomes, derived, enhanced_data,
                   clean_in>>

NextClean == CleanText

SpecClean == InitClean /\ [][NextClean]_vars

(***************************************************************************)
(* The properties.                                                         *)
(***************************************************************************)
\* the run has built enhanced_data
Enhanced == pc \in {"save", "done"}

\* the entry of enhanced_data for a word
EntriesOf(word) == {k \in 1..Len(enhanced_data) : enhanced_data[k].Word = word}

\* the strings of a list written one after the other with sep between them
RECURSIVE Separated(_, _)
Separated(list, sep) ==
    IF Len(list) = 0 THEN <<>>
    ELSE IF Len(list) = 1 THEN list[1]
    ELSE list[1] \o sep \o Separated(Tail(list), sep)

\* the places of a headword in cedict_ts.u8
PlacesOf(word) == {k \in 1..Len(dict_file) : dict_file[k].simplified = word}

\* the last entry parsed for a headword
LastParsed(word) == dict_file[CHOOSE k \in PlacesOf(word) : \A j \in PlacesOf(word) : j <= k]

\* C1: every word that is a dictionary headword gets as Translation the
\* meanings of the last entry parsed for it joined by ", " and as Pinyin
\* that entry's pinyin, whatever the translator did, and
\* derive_translation_from_components is not called for it.
C1_HeadwordsTakeTheirEntry ==
    Enhanced =>
        \A k \in 1..Len(enhanced_data) :
            PlacesOf(enhanced_data[k].Word) # {} =>
                /\ enhanced_data[k].Translation
                      = Separated(LastParsed(enhanced_data[k].Word).meanings, <<44, 32>>)
                /\ enhanced_data[k].Pinyin = LastParsed(enhanced_data[k].Word).pinyin
                /\ enhanced_data[k].Word \notin derived

\* a headword listed twice with different meanings and pinyin is in the
\* output, beside a word that is no headword, of a run in which a
\* translate call returned
C1_Witness ==
    /\ pc = "done"
    /\ \E k \in 1..Len(enhanced_data) :
          /\ Cardinality(PlacesOf(enhanced_data[k].Word)) = 2
          /\ enhanced_data[k].Translation = <<116, 104, 111, 117, 44, 32, 121, 111, 117>>
    /\ \E k \in 1..Len(enhanced_data) : PlacesOf(enhanced_data[k].Word) = {}
    /\ \E j \in 1..Len(outcomes) : ~outcomes[j].raised

\* the gloss of a word: for each character the meanings of its entry joined
\* by ", ", or "?" without an entry, the parts joined by " + "
CharacterGloss(char) ==
    IF PlacesOf(<<char>>) = {} THEN <<63>>
    ELSE Separated(LastParsed(<<char>>).meanings, <<44, 32>>)

Gloss(word) == Separated([k \in 1..Len(word) |-> CharacterGloss(word[k])], <<32, 43, 32>>)

\* C2: a word that is not a headword gets the remote translation recorded
\* for it when there is one, and otherwise the per-character gloss.
C2_MissingWordsFollowTheTiers ==
    Enhanced =>
        \A k \in 1..Len(enhanced_data) :
            PlacesOf(enhanced_data[k].Word) = {} =>
                enhanced_data[k].Translation
                    = IF enhanced_data[k].Word \in DOMAIN translations
                      THEN translations[enhanced_data[k].Word]
                      ELSE Gloss(enhanced_data[k].Word)

\* the output holds a word with a remote translation and a word without one
\* whose gloss has a known and an unknown character: "thou, you + ?"
C2_Witness ==
    /\ pc = "done"
    /\ \E k \in 1..Len(enhanced_data) :
          /\ PlacesOf(enhanced_data[k].Word) = {}
          /\ enhanced_data[k].Word \in DOMAIN translations
          /\ enhanced_data[k].Translation = <<84, 58>> \o enhanced_data[k].Word
    /\ \E k \in 1..Len(enhanced_data) :
          /\ PlacesOf(enhanced_data[k].Word) = {}
          /\ enhanced_data[k].Word \notin DOMAIN translations
          /\ enhanced_data[k].Translation
                = <<116, 104, 111, 117, 44, 32, 121, 111, 117, 32, 43, 32, 63>>

\* the number of batches of n missing words
BatchCount(n) == (n + 99) \div 100

\* the words of the j-th batch: words 100 (j - 1) + 1 to 100 j of missing_words
WordsOfBatch(j) ==
    SubSeq(missing_words, 100 * (j - 1) + 1, Min(100 * j, Len(missing_words)))

\* the translator has been, or need not be, used
Collected == pc \in {"translate", "await", "enhance", "save", "done"}

Fetched == pc \in {"enhance", "save", "done"}

Aborted == pc \in {"input_error", "dictionary_error"}

\* the Translation of the entry of a word
TranslationOf(word) == enhanced_data[CHOOSE k \in EntriesOf(word) : TRUE].Translation

\* the first words of a batch have as translations the first lines of the
\* reply, word k line k, as far as both go
PairedInOrder(batch, lines) ==
    \A k \in 1..Min(Len(batch), Len(lines)) :
        batch[k] \in DOMAIN translations /\ translations[batch[k]] = lines[k]

\* the words of a batch after the first m have no remote translation and,
\* once the entries are built, have their gloss as Translation
LeftToGloss(batch, m) ==
    \A k \in (m + 1)..Len(batch) :
        /\ batch[k] \notin DOMAIN translations
        /\ Enhanced => /\ EntriesOf(batch[k]) # {}
                       /\ TranslationOf(batch[k]) = Gloss(batch[k])

\* C3: when the translate call of a batch raises, no word of the batch gets
\* a translation, the batch is not sent again, every later batch is still
\* sent, the translations of the earlier batches stay, and the run goes on
\* to write the output, in which the words of the batch have their gloss.
C3_RaisingBatchFallsThrough ==
    \A j \in 1..Len(outcomes) :
        outcomes[j].raised =>
            /\ LeftToGloss(WordsOfBatch(j), 0)
            /\ \A j2 \in 1..Len(calls) : j2 # j => calls[j2] # calls[j]
            /\ Len(calls) <= BatchCount(Len(missing_words))
            /\ Fetched => Len(calls) = BatchCount(Len(missing_words))
            /\ \A j1 \in 1..(j - 1) :
                  ~outcomes[j1].raised =>
                      PairedInOrder(WordsOfBatch(j1), SplitLines(outcomes[j1].text))
            /\ ~Aborted
            /\ pc \in {"translate", "await"} => ENABLED Next
            /\ pc = "done" =>
                  /\ Len(output_file) = 1
                  /\ output_file[1].data = enhanced_data

\* a run of three batches is done; the second call raised, the other two
\* returned
C3_Witness ==
    /\ pc = "done"
    /\ Len(outcomes) = 3
    /\ ~outcomes[1].raised /\ outcomes[2].raised /\ ~outcomes[3].raised
    /\ WordsOfBatch(1)[1] \in DOMAIN translations
    /\ WordsOfBatch(3)[1] \in DOMAIN translations

\* C4: every key of the word-count table is the Word of exactly one entry
\* of data and no other Word appears; unique_words is the number of entries
\* and the number of distinct filtered tokens.
C4_OneEntryPerWord ==
    /\ Enhanced =>
          /\ \A w \in Keys(word_counts) : Cardinality(EntriesOf(w)) = 1
          /\ \A k \in 1..Len(enhanced_data) : enhanced_data[k].Word \in Keys(word_counts)
    /\ pc = "done" =>
          /\ output_file[1].data = enhanced_data
          /\ output_file[1].metadata.unique_words = Len(output_file[1].data)
          /\ output_file[1].metadata.unique_words
                = Cardinality({all_words[k] : k \in 1..Len(all_words)})

\* the output holds several words, one of them counted more than once, and
\* a translate call raised
C4_Witness ==
    /\ pc = "done"
    /\ Len(enhanced_data) >= 2
    /\ Len(all_words) > Len(enhanced_data)
    /\ \E j \in 1..Len(outcomes) : outcomes[j].raised

\* the sum of Count over the entries lo..hi of a data sequence
RECURSIVE CountSum(_, _, _)
CountSum(data, lo, hi) ==
    IF lo > hi THEN 0
    ELSE IF lo = hi THEN data[lo].Count
    ELSE CountSum(data, lo, (lo + hi) \div 2) + CountSum(data, (lo + hi) \div 2 + 1, hi)

\* C5: total_words in the written output is the sum of Count over data and
\* the number of filtered tokens; the empty input gives 0 and no entry.
C5_TotalIsSumOfCounts ==
    pc = "done" =>
        /\ output_file[1].metadata.total_words
              = CountSum(output_file[1].data, 1, Len(output_file[1].data))
        /\ output_file[1].metadata.total_words = Len(all_words)
        /\ texts = <<>> =>
              /\ output_file[1].metadata.total_words = 0
              /\ output_file[1].data = <<>>

\* the output of a corpus with a repeated word and another word is written
C5_Witness ==
    /\ pc = "done"
    /\ Len(enhanced_data) >= 2
    /\ output_file[1].metadata.total_words > Len(output_file[1].data)

\* where a word is first seen in the token stream
FirstSeen(word) ==
    CHOOSE k \in 1..Len(all_words) :
        all_words[k] = word /\ \A j \in 1..(k - 1) : all_words[j] # word

\* C6: data is ordered by Count non-increasing, entries of equal Count in
\* the order in which their words were first seen.  (Stated on neighbours,
\* which gives it for every pair.)
C6_SortedByCountThenFirstSeen ==
    Enhanced =>
        \A p \in 1..(Len(enhanced_data) - 1) :
            /\ enhanced_data[p].Count >= enhanced_data[p + 1].Count
            /\ enhanced_data[p].Count = enhanced_data[p + 1].Count
                  => FirstSeen(enhanced_data[p].Word) < FirstSeen(enhanced_data[p + 1].Word)

\* the most frequent word was seen after two words of equal Count, which
\* follow it in their order
C6_Witness ==
    /\ pc = "done"
    /\ Len(enhanced_data) >= 3
    /\ enhanced_data[1].Count > enhanced_data[2].Count
    /\ enhanced_data[2].Count = enhanced_data[3].Count
    /\ FirstSeen(enhanced_data[1].Word) > FirstSeen(enhanced_data[3].Word)

\* C7: when texts.json or cedict_ts.u8 cannot be read the run ends there:
\* the output file is as it was and no translate call was made; the
\* dictionary is loaded after segmentation and before any call or write.
C7_UnreadableInputAborts ==
    /\ Aborted =>
          /\ output_file = output_before
          /\ calls = <<>>
          /\ enhanced_data = <<>>
          /\ ~ENABLED Next
    /\ pc = "input_error" => all_words = <<>> /\ word_counts = <<>>
    /\ pc \in {"load_input", "segment"} => dictionary = <<>>
    /\ pc = "load_dictionary" =>
          /\ texts = texts_file
          /\ calls = <<>>
          /\ output_file = output_before

\* the dictionary could not be read after a corpus with words was
\* segmented, an output file of an earlier run being there
C7_Witness ==
    /\ pc = "dictionary_error"
    /\ word_counts # <<>>
    /\ output_file # <<>>

\* C8: the words sent are the distinct words that are no headwords, in
\* table order, in consecutive batches of at most 100, each word in one
\* batch; one call at a time, in order; ceil(n/100) calls, none for n = 0.
C8_BatchesOfAHundredInOrder ==
    /\ ~Collected => calls = <<>>
    /\ Collected =>
          /\ missing_words
                = SelectSeq([k \in 1..Len(word_counts) |-> word_counts[k].word],
                            LAMBDA w : PlacesOf(w) = {})
          /\ \A k1, k2 \in 1..Len(missing_words) :
                k1 < k2 => missing_words[k1] # missing_words[k2]
          /\ Len(calls) = Len(outcomes) + (IF pc = "await" THEN 1 ELSE 0)
          /\ Len(calls) <= BatchCount(Len(missing_words))
          /\ pc = "translate" => Len(calls) < BatchCount(Len(missing_words))
          /\ \A j \in 1..Len(calls) :
                /\ SplitLines(calls[j]) = WordsOfBatch(j)
                /\ Len(WordsOfBatch(j)) \in 1..100
          /\ Fetched => Len(calls) = BatchCount(Len(missing_words))

\* 201 missing words were sent in three calls
C8_Witness ==
    /\ pc = "done"
    /\ Len(missing_words) = 201
    /\ Len(calls) = 3
    /\ Len(SplitLines(calls[3])) = 1

\* C10: when the reply to a batch of n words has m lines, m # n, nothing is
\* raised: the first min(n, m) words get the first min(n, m) lines, further
\* lines are dropped, and with m < n the last n - m words get no remote
\* translation and are resolved by their gloss.
C10_MismatchedReplyIsZipped ==
    \A j \in 1..Len(outcomes) :
        (~outcomes[j].raised
            /\ Len(SplitLines(outcomes[j].text)) # Len(WordsOfBatch(j))) =>
            /\ PairedInOrder(WordsOfBatch(j), SplitLines(outcomes[j].text))
            /\ LeftToGloss(WordsOfBatch(j), Len(SplitLines(outcomes[j].text)))
            /\ DOMAIN translations \subseteq {missing_words[k] : k \in 1..Len(missing_words)}
            /\ ~Aborted

\* a run is done in which one reply had a line too few and another a line
\* too many
C10_Witness ==
    /\ pc = "done"
    /\ \E j \in 1..Len(outcomes) :
          /\ ~outcomes[j].raised
          /\ Len(SplitLines(outcomes[j].text)) < Len(WordsOfBatch(j))
    /\ \E j \in 1..Len(outcomes) :
          /\ ~outcomes[j].raised
          /\ Len(SplitLines(outcomes[j].text)) > Len(WordsOfBatch(j))

\* the characters of a string that are in the set kept, in their order
RECURSIVE Retained(_, _)
Retained(text, kept) ==
    IF Len(text) = 0 THEN <<>>
    ELSE IF text[1] \in kept THEN <<text[1]>> \o Retained(Tail(text), kept)
    ELSE Retained(Tail(text), kept)

\* the characters of a string
CharactersOf(text) == {text[k] : k \in 1..Len(text)}

\* ASCII letters, ASCII digits and whitespace
BasicText(c) ==
    \/ c \in 65..90 \/ c \in 97..122 \/ c \in 48..57
    \/ c \in {9, 10, 11, 12, 13, 28, 29, 30, 31, 32, 133, 160, 5760, 8232, 8233,
              8239, 8287, 12288}
    \/ c \in 8192..8202

\* the ideographs of U+4E00-U+9FFF and, up to U+FAFF, those of the
\* compatibility block U+F900-U+FAFF
IdeographUpToFAFF(c) == c \in 19968..40959 \/ c \in 63744..64255

\* C9 as stated: clean_text keeps, in order, exactly the CJK ideographs of
\* U+4E00-U+9FFF extended to U+FAFF, the ASCII letters, the digits and the
\* whitespace.
C9_AsStated ==
    pc = "cleaned" =>
        clean_out = Retained(clean_in, {c \in CharactersOf(clean_in) :
                                            IdeographUpToFAFF(c) \/ BasicText(c)})

\* C9, amended: clean_text keeps, in order, exactly the characters of
\* U+4E00-U+9FFF, the ASCII letters, the ASCII digits and the whitespace,
\* and deletes every other character, those of U+A000-U+FAFF included; the
\* empty string gives the empty string.
C9_KeepsHanAndBasicText ==
    pc = "cleaned" =>
        /\ clean_out = Retained(clean_in, {c \in CharactersOf(clean_in) :
                                               c \in 19968..40959 \/ BasicText(c)})
        /\ clean_in = <<>> => clean_out = <<>>

\* a string with U+9FFF, "!" and U+F900 was cleaned to U+9FFF alone
C9_Witness ==
    /\ pc = "cleaned"
    /\ clean_in = <<40959, 33, 63744>>
    /\ clean_out = <<40959>>

====
